---- MODULE Spec2Model ----
(***************************************************************************)
(* The range-notation codec of googlesheets (src/src/util.rs):             *)
(*   get_column_notation : zero-indexed column -> "A", "AB", "BHH", ...    *)
(*   get_a1_notation     : four optional coordinates -> A1 range string    *)
(* Both are pure functions.  A behaviour of the model is one call: Init    *)
(* draws the arguments, the action applies the function and records the    *)
(* outcome (a string, or the panic that ends the call).                    *)
(*                                                                         *)
(* Strings are sequences of one-character strings, so that formatting a    *)
(* number or a column is a computation and not the identity.               *)
(* usize arithmetic: every subtraction in the code is guarded by its       *)
(* branch (column >= 26 before column/26 - 1), and rows are drawn from     *)
(* 0..MaxRow, far below usize::MAX, so r + 1 never wraps in the model.     *)
(***************************************************************************)
EXTENDS Integers, Sequences, FiniteSets, TLC

VARIABLES pc, call, column, column2, start_column, start_row, end_column,
          end_row, result, result2

vars == <<pc, call, column, column2, start_column, start_row, end_column,
          end_row, result, result2>>

\* ---------------------------------------------------------------- bounds
\* largest column index the model calls get_column_notation with
MaxColumn == 18290
\* largest zero-indexed row the model calls get_a1_notation with
MaxRow == 17
\* get_a1_notation is called with the columns 0..MaxLowColumn and BoundaryColumns
MaxLowColumn == 3

\* ------------------------------------------------------------- constants
\* the last column of the two-letter block is 701 (util.rs:45)
TwoLetterLimit == 702
\* column ZZZ (util.rs:51)
MaxSupportedColumn == 18277

\* ------------------------------------------------------- values and outcomes
ASCII_UPPER ==
    << "A", "B", "C", "D", "E", "F", "G", "H", "I", "J", "K", "L", "M",
       "N", "O", "P", "Q", "R", "S", "T", "U", "V", "W", "X", "Y", "Z" >>

\* Option<usize>
None == [some |-> FALSE, v |-> 0]
Some(n) == [some |-> TRUE, v |-> n]

\* a call returns a String ...
Ok(s) == [kind |-> "Ok", str |-> s, msg |-> ""]
\* ... or panics
Panic(m) == [kind |-> "Panic", str |-> << >>, msg |-> m]

\* panic!() of get_column_notation: the OutOfRange condition
OutOfRange ==
    Panic("Number not supported. A number higher than 18277 will go beyond Column ZZZ.")
\* panic!() of get_a1_notation: the InvalidRangeShape condition
InvalidRangeShape == Panic("The specified range is not valid")
\* ASCII_UPPER[i] with i >= 26: the bounds check of array indexing
IndexOutOfBounds == Panic("index out of bounds")

\* ASCII_UPPER[index] (zero-indexed, bounds-checked)
Letter(index) ==
    IF index \in 0..25 THEN Ok(<< ASCII_UPPER[index + 1] >>)
    ELSE IndexOutOfBounds

Digits == << "0", "1", "2", "3", "4", "5", "6", "7", "8", "9" >>

\* Display for usize: the decimal digits of n, most significant first
RECURSIVE ToDecimal(_)
ToDecimal(n) ==
    IF n < 10 THEN << Digits[n + 1] >>
    ELSE ToDecimal(n \div 10) \o << Digits[(n % 10) + 1] >>

\* format!("{}{}..", a, b, ..): the arguments are evaluated left to right,
\* the first one that panics ends the call; otherwise the pieces are joined
RECURSIVE Format(_)
Format(pieces) ==
    IF pieces = << >> THEN Ok(<< >>)
    ELSE IF Head(pieces).kind # "Ok" THEN Head(pieces)
    ELSE LET rest == Format(Tail(pieces))
         IN  IF rest.kind # "Ok" THEN rest
             ELSE Ok(Head(pieces).str \o rest.str)

\* ------------------------------------------------- get_column_notation
\* branch "A - Z"
OneLetter(c) == Format(<< Letter(c) >>)

\* branch "AA - ZZ" written without the - 1
TwoLettersNoBorrow(c) == Format(<< Letter(c \div 26), Letter(c % 26) >>)
\* branch "AA - ZZ"
TwoLetters(c) == Format(<< Letter(c \div 26 - 1), Letter(c % 26) >>)

\* the local `first` of branch "AAA - ZZZ"
First(c) ==
    IF (c \div 26) \div 26 >= 26
    THEN 26 - (((c \div 26) \div 26) % 26)
    ELSE (c \div 26) \div 26 - 1

\* branch "AAA - ZZZ"
ThreeLetters(c) ==
    Format(<< Letter(First(c)), Letter((c \div 26 - 1) % 26), Letter(c % 26) >>)

\* get_column_notation that clamps above ZZZ instead of panicking
get_column_notation_clamp(c) ==
    IF c < 26 THEN OneLetter(c)
    ELSE IF c < TwoLetterLimit THEN TwoLetters(c)
    ELSE IF c <= MaxSupportedColumn THEN ThreeLetters(c)
    ELSE ThreeLetters(MaxSupportedColumn)
get_column_notation(c) ==
    IF c < 26 THEN OneLetter(c)
    ELSE IF c < TwoLetterLimit THEN TwoLetters(c)
    ELSE IF c <= MaxSupportedColumn THEN ThreeLetters(c)
    ELSE OutOfRange

\* ----------------------------------------------------- get_a1_notation
\* the match of get_a1_notation with the whole-column arm tried first
MatchArmColumnsFirst(sc, sr, ec, er) ==
    IF sc.some /\ ec.some /\ ~(sr.some /\ er.some) THEN 3
    ELSE IF sc.some /\ sr.some /\ ec.some /\ er.some THEN 2
    ELSE IF ~sc.some /\ sr.some /\ er.some THEN 4
    ELSE 5
\* the match of get_a1_notation whose first arm lacks the alias
\* (Some(sc), None, Some(ec), Some(r))
MatchArmNoAlias(sc, sr, ec, er) ==
    IF sc.some /\ sr.some /\ ec.some /\ ~er.some THEN 1
    ELSE IF sc.some /\ sr.some /\ ec.some /\ er.some THEN 2
    ELSE IF sc.some /\ ec.some THEN 3
    ELSE IF ~sc.some /\ sr.some /\ er.some THEN 4
    ELSE 5
\* the match of get_a1_notation whose row-range arm takes any start column
MatchArmAnyStart(sc, sr, ec, er) ==
    IF \/ sc.some /\ sr.some /\ ec.some /\ ~er.some
       \/ sc.some /\ ~sr.some /\ ec.some /\ er.some THEN 1
    ELSE IF sc.some /\ sr.some /\ ec.some /\ er.some THEN 2
    ELSE IF sc.some /\ ec.some THEN 3
    ELSE IF sr.some /\ er.some THEN 4
    ELSE 5
\* the match of get_a1_notation: the number of the first arm, in source
\* order, whose pattern the tuple matches (5 is the wildcard arm)
MatchArm(sc, sr, ec, er) ==
    IF \/ sc.some /\ sr.some /\ ec.some /\ ~er.some
       \/ sc.some /\ ~sr.some /\ ec.some /\ er.some THEN 1
    ELSE IF sc.some /\ sr.some /\ ec.some /\ er.some THEN 2
    ELSE IF sc.some /\ ec.some THEN 3
    ELSE IF ~sc.some /\ sr.some /\ er.some THEN 4
    ELSE 5

\* arm 1, "A5:A", binding r to the row that is present
OpenArm(sc, sr, ec, er) ==
    LET r == IF sr.some THEN sr.v ELSE er.v
    IN  Format(<< get_column_notation(sc.v), Ok(ToDecimal(r + 1)),
                  Ok(<< ":" >>), get_column_notation(ec.v) >>)

\* arm 2 printing the end row zero-indexed
BoundedArmZeroIndexedEnd(sc, sr, ec, er) ==
    Format(<< get_column_notation(sc.v), Ok(ToDecimal(sr.v + 1)),
              Ok(<< ":" >>), get_column_notation(ec.v), Ok(ToDecimal(er.v)) >>)
\* arm 2, "A1:B2"
BoundedArm(sc, sr, ec, er) ==
    Format(<< get_column_notation(sc.v), Ok(ToDecimal(sr.v + 1)),
              Ok(<< ":" >>), get_column_notation(ec.v), Ok(ToDecimal(er.v + 1)) >>)

\* arm 3, "A:B"
ColumnsArm(sc, sr, ec, er) ==
    Format(<< get_column_notation(sc.v), Ok(<< ":" >>), get_column_notation(ec.v) >>)

\* arm 4 with the branches of `if let Some(column)` exchanged
RowsArmSwapped(sc, sr, ec, er) ==
    IF ~ec.some
    THEN Format(<< Ok(ToDecimal(sr.v + 1)), Ok(<< ":" >>),
                   get_column_notation(ec.v), Ok(ToDecimal(er.v + 1)) >>)
    ELSE Format(<< Ok(ToDecimal(sr.v + 1)), Ok(<< ":" >>), Ok(ToDecimal(er.v + 1)) >>)
\* arm 4, "10:18" and "10:B18"
RowsArm(sc, sr, ec, er) ==
    IF ec.some
    THEN Format(<< Ok(ToDecimal(sr.v + 1)), Ok(<< ":" >>),
                   get_column_notation(ec.v), Ok(ToDecimal(er.v + 1)) >>)
    ELSE Format(<< Ok(ToDecimal(sr.v + 1)), Ok(<< ":" >>), Ok(ToDecimal(er.v + 1)) >>)

\* the wildcard arm
WildcardArm == InvalidRangeShape

\* the match expression: the body of the first matching arm
get_a1_notation(sc, sr, ec, er) ==
    LET arm == MatchArm(sc, sr, ec, er)
    IN  IF arm = 1 THEN OpenArm(sc, sr, ec, er)
        ELSE IF arm = 2 THEN BoundedArm(sc, sr, ec, er)
        ELSE IF arm = 3 THEN ColumnsArm(sc, sr, ec, er)
        ELSE IF arm = 4 THEN RowsArm(sc, sr, ec, er)
        ELSE WildcardArm

\* ---------------------------------------------------------- the calls
\* columns get_column_notation is called with
Columns == 0..MaxColumn

\* the ends of the letter blocks and of the branches of `first`
BoundaryColumns ==
    { 25, 26, 701, 702, 1352, 17575, 17576, 18251, 18252, 18277, 18278 }

\* arguments get_a1_notation is called with
A1Columns == { None } \cup { Some(c) : c \in (0..MaxLowColumn) \cup BoundaryColumns }
A1Rows == { None } \cup { Some(r) : r \in 0..MaxRow }

\* distances between the two columns of a uniqueness test
PairOffsets == { 1, 26, 676 }

\* no call has returned yet
Pending == [kind |-> "Pending", str |-> << >>, msg |-> ""]

Init ==
    /\ pc = "call"
    /\ result = Pending /\ result2 = Pending
    /\ \/ /\ call = "get_column_notation"
          /\ column \in Columns
          /\ column2 = 0
          /\ start_column = None /\ start_row = None
          /\ end_column = None /\ end_row = None
       \/ /\ call = "uniqueness"
          /\ column \in Columns
          /\ column2 \in { column + d : d \in PairOffsets } \cap Columns
          /\ start_column = None /\ start_row = None
          /\ end_column = None /\ end_row = None
       \/ /\ call = "get_a1_notation"
          /\ column = 0 /\ column2 = 0
          /\ start_column \in A1Columns /\ start_row \in A1Rows
          /\ end_column \in A1Columns /\ end_row \in A1Rows

\* one call of get_column_notation(column)
CallColumnNotation ==
    /\ pc = "call"
    /\ call = "get_column_notation"
    /\ result' = get_column_notation(column)
    /\ pc' = "done"
    /\ UNCHANGED <<call, column, column2, start_column, start_row,
                   end_column, end_row, result2>>

\* get_column_notation on two distinct columns, as a uniqueness check does
CallColumnNotationTwice ==
    /\ pc = "call"
    /\ call = "uniqueness"
    /\ result' = get_column_notation(column)
    /\ result2' = get_column_notation(column2)
    /\ pc' = "done"
    /\ UNCHANGED <<call, column, column2, start_column, start_row,
                   end_column, end_row>>

\* one call of get_a1_notation(start_column, start_row, end_column, end_row)
CallA1Notation ==
    /\ pc = "call"
    /\ call = "get_a1_notation"
    /\ result' = get_a1_notation(start_column, start_row, end_column, end_row)
    /\ pc' = "done"
    /\ UNCHANGED <<call, column, column2, start_column, start_row,
                   end_column, end_row, result2>>

Next == CallColumnNotation \/ CallColumnNotationTwice \/ CallA1Notation

Spec == Init /\ [][Next]_vars

\* ------------------------------------------------------------ reference
\* the bijective base-26 (Excel) name of the zero-indexed column n
RECURSIVE BijectiveName(_)
BijectiveName(n) ==
    IF n < 26 THEN << ASCII_UPPER[n + 1] >>
    ELSE BijectiveName(n \div 26 - 1) \o << ASCII_UPPER[(n % 26) + 1] >>

ColumnDone == pc = "done" /\ call = "get_column_notation"
PairDone == pc = "done" /\ call = "uniqueness"
A1Done == pc = "done" /\ call = "get_a1_notation"

\* the column can be encoded: get_column_notation returns a string for it
Encodable(c) == get_column_notation(c).kind = "Ok"
\* col(c): the string get_column_notation returns
col(c) == get_column_notation(c).str

Colon == << ":" >>
HasDigit(s) == \E i \in 1..Len(s) : \E d \in 1..10 : s[i] = Digits[d]

\* ---------------------------------------------------------------- claims

\* C1: for every column 0 <= c <= 18277 get_column_notation returns a
\* string and never fails; every letter index of the three-letter branch,
\* `first` included, lies in 0..25.
C1_TotalOnSupportedDomain ==
    (ColumnDone /\ column <= MaxSupportedColumn) =>
        /\ result.kind = "Ok"
        /\ column >= TwoLetterLimit => First(column) \in 0..25

\* C2: for every column 702 <= c <= 18277, with o = c - 702, the name is the
\* three letters at indices o/676, (o/26) mod 26 and o mod 26, which is the
\* bijective base-26 name of c.
C2_ThreeLetterNames ==
    (ColumnDone /\ column >= TwoLetterLimit /\ column <= MaxSupportedColumn) =>
        LET o == column - 702
        IN  /\ result = Ok(<< ASCII_UPPER[(o \div 676) + 1],
                              ASCII_UPPER[((o \div 26) % 26) + 1],
                              ASCII_UPPER[(o % 26) + 1] >>)
            /\ result.str = BijectiveName(column)

\* C3: for every column 0 <= c <= 701 the name is the bijective base-26
\* name of c: one letter at index c below 26, otherwise exactly two letters
\* at indices c/26 - 1 and c mod 26, both in 0..25.
C3_ShortNames ==
    (ColumnDone /\ column < TwoLetterLimit) =>
        /\ result.kind = "Ok"
        /\ result.str = BijectiveName(column)
        /\ column < 26 => result.str = << ASCII_UPPER[column + 1] >>
        /\ column >= 26 =>
              /\ column \div 26 - 1 \in 0..25
              /\ column % 26 \in 0..25
              /\ result.str = << ASCII_UPPER[(column \div 26 - 1) + 1],
                                 ASCII_UPPER[(column % 26) + 1] >>

C3_Witness ==
    /\ ColumnDone
    /\ column = 701
    /\ result = Ok(<< "Z", "Z" >>)

\* C4: two distinct columns of 0..18277 are encoded to two different strings.
C4_Injective ==
    (PairDone /\ column # column2 /\ column <= MaxSupportedColumn
              /\ column2 <= MaxSupportedColumn) =>
        /\ result.kind = "Ok"
        /\ result2.kind = "Ok"
        /\ result.str # result2.str

\* C5: for every column above 18277 get_column_notation fails with the
\* out-of-range panic and returns no string: neither "ZZZ" nor any other name.
C5_OutOfRangeAboveZZZ ==
    (ColumnDone /\ column > MaxSupportedColumn) =>
        /\ result = OutOfRange
        /\ result.kind # "Ok"
        /\ result.str # << "Z", "Z", "Z" >>

C5_Witness ==
    /\ ColumnDone
    /\ column = 18278
    /\ result = OutOfRange

\* C6: with both columns encodable and exactly one row r present, as start
\* row or as end row, get_a1_notation returns col(sc) r+1 ":" col(ec); the
\* two alias tuples give the same string, and it is never the whole-column
\* string col(sc) ":" col(ec).
C6_AliasShapesAgree ==
    (/\ A1Done
     /\ start_column.some /\ end_column.some
     /\ start_row.some # end_row.some
     /\ Encodable(start_column.v) /\ Encodable(end_column.v)) =>
        LET r == IF start_row.some THEN start_row.v ELSE end_row.v
        IN  /\ result = Ok(col(start_column.v) \o ToDecimal(r + 1) \o Colon
                           \o col(end_column.v))
            /\ result = get_a1_notation(start_column, end_row, end_column, start_row)
            /\ result.str # col(start_column.v) \o Colon \o col(end_column.v)

C6_Witness ==
    /\ A1Done
    /\ start_column = Some(0) /\ start_row = None
    /\ end_column = Some(0) /\ end_row = Some(0)
    /\ result = Ok(<< "A", "1", ":", "A" >>)

\* C7: with all four coordinates present and both columns encodable,
\* get_a1_notation returns col(sc) sr+1 ":" col(ec) er+1.
C7_FullyBounded ==
    (/\ A1Done
     /\ start_column.some /\ start_row.some /\ end_column.some /\ end_row.some
     /\ Encodable(start_column.v) /\ Encodable(end_column.v)) =>
        result = Ok(col(start_column.v) \o ToDecimal(start_row.v + 1) \o Colon
                    \o col(end_column.v) \o ToDecimal(end_row.v + 1))

C7_Witness ==
    /\ A1Done
    /\ start_column = Some(0) /\ start_row = Some(1)
    /\ end_column = Some(1) /\ end_row = Some(4)
    /\ result = Ok(<< "A", "2", ":", "B", "5" >>)

\* C8: with both columns present and encodable, get_a1_notation returns the
\* whole-column string col(sc) ":" col(ec), without a row number, when both
\* rows are absent; a tuple with a row present is taken by arm 1 or arm 2
\* and does not return the whole-column string.
C8_WholeColumns ==
    (/\ A1Done
     /\ start_column.some /\ end_column.some
     /\ Encodable(start_column.v) /\ Encodable(end_column.v)) =>
        LET whole == col(start_column.v) \o Colon \o col(end_column.v)
            arm == MatchArm(start_column, start_row, end_column, end_row)
        IN  /\ (~start_row.some /\ ~end_row.some) =>
                  /\ arm = 3
                  /\ result = Ok(whole)
                  /\ ~HasDigit(result.str)
            /\ (start_row.some \/ end_row.some) =>
                  /\ arm \in {1, 2}
                  /\ result.kind = "Ok"
                  /\ result.str # whole
                  /\ HasDigit(result.str)

C8_Witness ==
    /\ A1Done
    /\ start_column = Some(0) /\ start_row = None
    /\ end_column = Some(3) /\ end_row = None
    /\ result = Ok(<< "A", ":", "D" >>)

\* C9: with the start column absent and both rows present, get_a1_notation
\* returns sr+1 ":" col(ec) er+1 for an encodable end column and
\* sr+1 ":" er+1, without any letter, when the end column is absent.
C9_RowRange ==
    (A1Done /\ ~start_column.some /\ start_row.some /\ end_row.some) =>
        /\ (end_column.some /\ Encodable(end_column.v)) =>
              result = Ok(ToDecimal(start_row.v + 1) \o Colon
                          \o col(end_column.v) \o ToDecimal(end_row.v + 1))
        /\ ~end_column.some =>
              /\ result = Ok(ToDecimal(start_row.v + 1) \o Colon
                             \o ToDecimal(end_row.v + 1))
              /\ \A i \in 1..Len(result.str) :
                    \A l \in 1..26 : result.str[i] # ASCII_UPPER[l]

C9_Witness ==
    /\ A1Done
    /\ start_column = None /\ start_row = Some(9)
    /\ end_column = Some(3) /\ end_row = Some(17)
    /\ result = Ok(<< "1", "0", ":", "D", "1", "8" >>)

\* C10: get_a1_notation fails with the invalid-range panic, returning no
\* string, exactly when the start column is present and the end column is
\* absent, or the start column is absent and one of the rows is absent.
C10_InvalidShapes ==
    A1Done =>
        LET unrecognised ==
                \/ start_column.some /\ ~end_column.some
                \/ ~start_column.some /\ (~start_row.some \/ ~end_row.some)
        IN  /\ (result = InvalidRangeShape) <=> unrecognised
            /\ unrecognised => result.kind # "Ok"

C10_Witness ==
    /\ A1Done
    /\ start_column = None /\ start_row = None
    /\ end_column = None /\ end_row = None
    /\ result = InvalidRangeShape

\* C11: the two failures of get_a1_notation do not mask each other.  A tuple
\* of unrecognised shape fails with the invalid-range panic even when it
\* carries a column above 18277; a tuple of recognised shape that carries a
\* column above 18277 fails with the out-of-range panic of
\* get_column_notation; no string is returned in either situation.
C11_ErrorsDoNotMask ==
    A1Done =>
        LET above ==
                \/ start_column.some /\ start_column.v > MaxSupportedColumn
                \/ end_column.some /\ end_column.v > MaxSupportedColumn
            recognised ==
                \/ start_column.some /\ end_column.some
                \/ ~start_column.some /\ start_row.some /\ end_row.some
        IN  /\ (~recognised /\ above) => result = InvalidRangeShape
            /\ (recognised /\ above) => result = OutOfRange
            /\ above => result.kind # "Ok"
====
